---------------------------- MODULE Spec2Model ----------------------------
(***************************************************************************)
(* DatetimeFormatter of sdgx (sdgx/data_processors/formatters/datetime.py) *)
(* as a state machine: the metadata it is fitted on, the formatter's own   *)
(* fields, the tables the caller passes to convert and reverse_convert     *)
(* (objects on a heap, so that copying and aliasing are visible), and the  *)
(* per-cell conversions datetime_formatter and column_timestamp_formatter. *)
(*                                                                         *)
(* Representation.  A timestamp is a count of seconds since the epoch; the *)
(* largest one the code accepts, 253402300799, does not fit the 32-bit     *)
(* integers of the model checker, so a timestamp is the pair               *)
(* [day, sec] = [t div 86400, t mod 86400], which is exact.  A text is the *)
(* sequence of its characters.  A naive datetime is the record of its      *)
(* calendar fields.  Local time is UTC plus a fixed offset `tz` chosen at  *)
(* start-up (daylight-saving transitions are not modelled), on a platform  *)
(* whose local-time conversions accept every year of 1..9999.              *)
(***************************************************************************)
EXTENDS Integers, Sequences, FiniteSets, TLC

(***************************************************************************)
(* Bounds of the model.                                                    *)
(***************************************************************************)
\* fit calls in one behaviour (re-fitting on the same metadata)
MaxFits == 2
\* rows of the longest table column
MaxRows == 3

(***************************************************************************)
(* Timestamps: pairs [day, sec], 0 <= sec < 86400.                         *)
(***************************************************************************)
SecsPerDay == 24 * 3600

Ts(day, sec) == [day |-> day, sec |-> sec]

\* the pair of day * 86400 + secs, for any integer secs of small magnitude
TsNorm(day, secs) == Ts(day + (secs \div SecsPerDay), secs % SecsPerDay)

TsAddSecs(t, secs) == TsNorm(t.day, t.sec + secs)

TsLeq(a, b) == a.day < b.day \/ (a.day = b.day /\ a.sec <= b.sec)

TsZero == Ts(0, 0)

\* 253402300799 = 2932897 * 86400 - 1: the last second of 9999-12-31 (UTC)
MaxTimestamp == Ts(2932896, SecsPerDay - 1)

(***************************************************************************)
(* The proleptic Gregorian calendar of Python's datetime.                  *)
(***************************************************************************)
IsLeap(y) == (y % 4 = 0) /\ ((y % 100 # 0) \/ (y % 400 = 0))

DaysInMonth(y, m) ==
    IF m = 2 THEN (IF IsLeap(y) THEN 29 ELSE 28)
    ELSE IF m \in {4, 6, 9, 11} THEN 30 ELSE 31

\* days from 1970-01-01 to y-m-d
DaysFromCivil(y, m, d) ==
    LET yy  == IF m <= 2 THEN y - 1 ELSE y
        era == yy \div 400
        yoe == yy - era * 400
        mp  == IF m > 2 THEN m - 3 ELSE m + 9
        doy == ((153 * mp + 2) \div 5) + d - 1
        doe == yoe * 365 + (yoe \div 4) - (yoe \div 100) + doy
    IN  era * 146097 + doe - 719468

\* the calendar date of the day z days after 1970-01-01
CivilFromDays(z) ==
    LET zz  == z + 719468
        era == zz \div 146097
        doe == zz - era * 146097
        yoe == (doe - (doe \div 1460) + (doe \div 36524) - (doe \div 146096)) \div 365
        doy == doe - (365 * yoe + (yoe \div 4) - (yoe \div 100))
        mp  == (5 * doy + 2) \div 153
        d   == doy - ((153 * mp + 2) \div 5) + 1
        m   == IF mp < 10 THEN mp + 3 ELSE mp - 9
        y   == yoe + era * 400 + (IF m <= 2 THEN 1 ELSE 0)
    IN  [Y |-> y, m |-> m, d |-> d]

Dt(Y, m, d, H, M, S) == [Y |-> Y, m |-> m, d |-> d, H |-> H, M |-> M, S |-> S]

\* datetime(...) raises ValueError outside these ranges
ValidDatetime(dt) ==
    /\ dt.Y \in 1..9999
    /\ dt.m \in 1..12
    /\ dt.d >= 1 /\ dt.d <= DaysInMonth(dt.Y, dt.m)
    /\ dt.H \in 0..23 /\ dt.M \in 0..59 /\ dt.S \in 0..59


(***************************************************************************)
(* Local time.  datetime.timestamp(naive) reads the naive datetime as      *)
(* local time; datetime.fromtimestamp(t) gives the local naive datetime    *)
(* and raises ValueError when its year leaves 1..9999.                     *)
(***************************************************************************)
\* the local UTC offsets (seconds) the program may run under
TzOffsets == {0 - 18000, 0, 28800}

Timestamp(dt, off) ==
    TsNorm(DaysFromCivil(dt.Y, dt.m, dt.d), dt.H * 3600 + dt.M * 60 + dt.S - off)

FromTimestamp(t, off) ==
    LET local == TsAddSecs(t, off)
        c     == CivilFromDays(local.day)
    IN  IF c.Y \in 1..9999
        THEN [ok |-> TRUE,
              dt |-> Dt(c.Y, c.m, c.d, local.sec \div 3600,
                        (local.sec % 3600) \div 60, local.sec % 60)]
        ELSE [ok |-> FALSE]

(***************************************************************************)
(* Texts: sequences of one-character strings.                              *)
(***************************************************************************)
DigitChars == <<"0", "1", "2", "3", "4", "5", "6", "7", "8", "9">>

IsDigit(c) == \E n \in 1..10 : DigitChars[n] = c

DigitVal(c) == (CHOOSE n \in 1..10 : DigitChars[n] = c) - 1

\* the decimal digits of n >= 0, at least w of them (zero padded)
RECURSIVE NatText(_, _)
NatText(n, w) ==
    IF n < 10 /\ w <= 1 THEN <<DigitChars[n + 1]>>
    ELSE Append(NatText(n \div 10, w - 1), DigitChars[(n % 10) + 1])

\* the value of the w digits of s from position j, -1 if they are not w digits
RECURSIVE NumAt(_, _, _)
NumAt(s, j, w) ==
    IF w = 0 THEN 0
    ELSE IF j + w - 1 > Len(s) \/ ~IsDigit(s[j + w - 1]) THEN 0 - 1
    ELSE LET hi == NumAt(s, j, w - 1)
         IN  IF hi < 0 THEN 0 - 1 ELSE hi * 10 + DigitVal(s[j + w - 1])

\* the decimal digits of a timestamp t >= 0 (long division of the pair by 10)
RECURSIVE TsDigits(_)
TsDigits(t) ==
    LET low  == (t.day % 10) * SecsPerDay + t.sec
        q    == TsNorm(t.day \div 10, low \div 10)
        last == DigitChars[(low % 10) + 1]
    IN  IF q = TsZero THEN <<last>> ELSE Append(TsDigits(q), last)

\* str(x) of a float x holding a whole number of seconds: "1672531200.0", "-1.0"
StrOfNumber(t) ==
    IF t.day < 0
    THEN <<"-">> \o TsDigits(TsNorm(0 - t.day, 0 - t.sec)) \o <<".", "0">>
    ELSE TsDigits(t) \o <<".", "0">>

(***************************************************************************)
(* datetime.strptime(text, format): the format becomes a regular           *)
(* expression, one group per directive, matched from the start of the text *)
(* with backtracking; the whole text must be consumed, and the fields must *)
(* make a valid datetime.  Fields that the format lacks default to         *)
(* 1900-01-01 00:00:00.  Directives: %Y %m %d %H %M %S %%.                 *)
(***************************************************************************)
NoMatch == [ok |-> FALSE]

\* the alternatives of a directive's group, in the order the regex tries them:
\* [w: digits, lo..hi: values, sp: a leading space]
DirectiveAlts(c) ==
    CASE c = "Y" -> <<[w |-> 4, lo |-> 0, hi |-> 9999, sp |-> FALSE]>>
      [] c = "m" -> <<[w |-> 2, lo |-> 1, hi |-> 12, sp |-> FALSE],
                      [w |-> 1, lo |-> 1, hi |-> 9, sp |-> FALSE]>>
      [] c = "d" -> <<[w |-> 2, lo |-> 1, hi |-> 31, sp |-> FALSE],
                      [w |-> 1, lo |-> 1, hi |-> 9, sp |-> FALSE],
                      [w |-> 1, lo |-> 1, hi |-> 9, sp |-> TRUE]>>
      [] c = "H" -> <<[w |-> 2, lo |-> 0, hi |-> 23, sp |-> FALSE],
                      [w |-> 1, lo |-> 0, hi |-> 9, sp |-> FALSE]>>
      [] c = "M" -> <<[w |-> 2, lo |-> 0, hi |-> 59, sp |-> FALSE],
                      [w |-> 1, lo |-> 0, hi |-> 9, sp |-> FALSE]>>
      [] c = "S" -> <<[w |-> 2, lo |-> 0, hi |-> 61, sp |-> FALSE],
                      [w |-> 1, lo |-> 0, hi |-> 9, sp |-> FALSE]>>
      [] OTHER   -> <<>>

\* the number of spaces of s from position j
RECURSIVE SpaceRun(_, _)
SpaceRun(s, j) == IF j <= Len(s) /\ s[j] = " " THEN 1 + SpaceRun(s, j + 1) ELSE 0

RECURSIVE Match(_, _, _, _, _)
RECURSIVE MatchAlts(_, _, _, _, _, _, _)
RECURSIVE MatchSpaces(_, _, _, _, _, _)

\* format f from position i against text s from position j, fields so far acc
Match(f, i, s, j, acc) ==
    IF i > Len(f) THEN [ok |-> TRUE, dt |-> acc, end |-> j]
    ELSE IF f[i] = "%" THEN
        IF i = Len(f) THEN NoMatch                        \* stray %
        ELSE IF f[i + 1] = "%" THEN
            IF j <= Len(s) /\ s[j] = "%" THEN Match(f, i + 2, s, j + 1, acc)
            ELSE NoMatch
        ELSE MatchAlts(f, i, s, j, acc, DirectiveAlts(f[i + 1]), 1)
    ELSE IF f[i] = " " THEN                               \* \s+, greedy
        MatchSpaces(f, i + 1 + SpaceRun(f, i + 1), s, j, acc, SpaceRun(s, j))
    ELSE IF j <= Len(s) /\ s[j] = f[i] THEN Match(f, i + 1, s, j + 1, acc)
    ELSE NoMatch

\* the directive at f[i], f[i+1]: its alternatives from the k-th on
MatchAlts(f, i, s, j, acc, alts, k) ==
    IF k > Len(alts) THEN NoMatch                   \* no alternative, or a bad directive
    ELSE LET a    == alts[k]
             from == IF a.sp THEN j + 1 ELSE j
             v    == IF a.sp /\ ~(j <= Len(s) /\ s[j] = " ") THEN 0 - 1
                     ELSE NumAt(s, from, a.w)
             rest == IF v >= a.lo /\ v <= a.hi
                     THEN Match(f, i + 2, s, from + a.w, [acc EXCEPT ![f[i + 1]] = v])
                     ELSE NoMatch
         IN  IF rest.ok THEN rest ELSE MatchAlts(f, i, s, j, acc, alts, k + 1)

\* a run of blanks of the format (the rest of it starts at i): n blanks of the text, then fewer
MatchSpaces(f, i, s, j, acc, n) ==
    IF n < 1 THEN NoMatch
    ELSE LET rest == Match(f, i, s, j + n, acc)
         IN  IF rest.ok THEN rest ELSE MatchSpaces(f, i, s, j, acc, n - 1)

Strptime(s, f) ==
    LET r == Match(f, 1, s, 1, Dt(1900, 1, 1, 0, 0, 0))
    IN  IF r.ok /\ r.end = Len(s) + 1 /\ ValidDatetime(r.dt)
        THEN [ok |-> TRUE, dt |-> r.dt]
        ELSE NoMatch

(***************************************************************************)
(* datetime.strftime(format): each directive becomes its field's digits,   *)
(* every other character itself.                                           *)
(***************************************************************************)
RECURSIVE Strftime(_, _)
Strftime(dt, f) ==
    IF f = <<>> THEN <<>>
    ELSE IF f[1] = "%" /\ Len(f) >= 2 THEN
        LET c    == f[2]
            rest == Strftime(dt, SubSeq(f, 3, Len(f)))
        IN  IF c = "Y" THEN NatText(dt.Y, 1) \o rest
            ELSE IF c \in {"m", "d", "H", "M", "S"} THEN NatText(dt[c], 2) \o rest
            ELSE IF c = "%" THEN <<"%">> \o rest
            ELSE <<"%", c>> \o rest
    ELSE <<f[1]>> \o Strftime(dt, Tail(f))

(***************************************************************************)
(* Cell values: a missing marker (None, NaN), a number (a timestamp held   *)
(* as a float), a native datetime (datetime, pd.Timestamp), or a text.     *)
(***************************************************************************)
NA == [k |-> "na"]

Num(t) == [k |-> "num", t |-> t]

Native(dt) == [k |-> "datetime", dt |-> dt]

Text(s) == [k |-> "text", s |-> s]

NoDatetime == Text(<<"N", "o", " ", "D", "a", "t", "e", "t", "i", "m", "e">>)

\* str(each_value) of a cell that is neither missing nor a native datetime
StrOf(v) == IF v.k = "num" THEN StrOfNumber(v.t) ELSE v.s

\* datetime_formatter reading the datetime as UTC, not as local time
datetime_formatter_utc(each_value, datetime_format, off) ==
    IF each_value.k = "na" THEN NA
    ELSE IF each_value.k = "datetime" THEN Num(Timestamp(each_value.dt, 0))
    ELSE LET datetime_obj == Strptime(StrOf(each_value), datetime_format)
         IN  IF datetime_obj.ok THEN Num(Timestamp(datetime_obj.dt, 0))
             ELSE NA

\* datetime_formatter filling a failure with 0 instead of leaving it missing
datetime_formatter_fill0(each_value, datetime_format, off) ==
    IF each_value.k = "na" THEN NA
    ELSE IF each_value.k = "datetime" THEN Num(Timestamp(each_value.dt, off))
    ELSE LET datetime_obj == Strptime(StrOf(each_value), datetime_format)
         IN  IF datetime_obj.ok THEN Num(Timestamp(datetime_obj.dt, off))
             ELSE Num(TsZero)

\* datetime_formatter: the cell of convert
datetime_formatter(each_value, datetime_format, off) ==
    IF each_value.k = "na" THEN NA
    ELSE IF each_value.k = "datetime" THEN Num(Timestamp(each_value.dt, off))
    ELSE LET datetime_obj == Strptime(StrOf(each_value), datetime_format)
         IN  IF datetime_obj.ok THEN Num(Timestamp(datetime_obj.dt, off))
             ELSE NA                                  \* except Exception: np.nan

\* 0 <= each_stamp <= 253402300799
InValidRange(t) == TsLeq(TsZero, t) /\ TsLeq(t, MaxTimestamp)

\* column_timestamp_formatter: the cell of reverse_convert
column_timestamp_formatter(each_stamp, timestamp_format, off) ==
    IF each_stamp.k = "na" THEN NoDatetime
    ELSE IF each_stamp.k # "num" THEN NoDatetime  \* 0 <= text: TypeError, caught
    ELSE IF ~InValidRange(each_stamp.t) THEN NoDatetime
    ELSE LET d == FromTimestamp(each_stamp.t, off)
         IN  IF d.ok THEN Text(Strftime(d.dt, timestamp_format))
             ELSE NoDatetime                          \* except Exception

(***************************************************************************)
(* Tables and the heap.  A table is a function from its column names to    *)
(* the columns, each a sequence of cells.  The heap maps the references of *)
(* the live DataFrame objects to their tables; 0 is no reference.          *)
(***************************************************************************)
Cols == {"date1", "date2"}

ColOrder == <<"date1", "date2">>

Range(q) == {q[n] : n \in DOMAIN q}

\* the members of S as a list
ListOf(S) == SelectSeq(ColOrder, LAMBDA c : c \in S)

Restrict(fn, S) == [x \in (DOMAIN fn) \cap S |-> fn[x]]

FreshRef(h) == IF DOMAIN h = {} THEN 1
               ELSE (CHOOSE n \in DOMAIN h : \A m \in DOMAIN h : m <= n) + 1

Put(h, r, t) == [x \in (DOMAIN h) \cup {r} |-> IF x = r THEN t ELSE h[x]]

\* no copy: the same object
CopyTableAlias(h, r) == [heap |-> h, ref |-> r]

\* DataFrame.copy(): a new object holding the same table
CopyTable(h, r) == LET n == FreshRef(h) IN [heap |-> Put(h, n, h[r]), ref |-> n]

\* Formatter.remove_columns: a new table without the named columns, absent names ignored
remove_columns(h, r, names) ==
    LET n == FreshRef(h)
    IN  [heap |-> Put(h, n, Restrict(h[r], (DOMAIN h[r]) \ names)), ref |-> n]

\* for column in datetime_column_list: result_data[column] = result_data[column].apply(...)
RECURSIVE ConvertLoop(_, _, _, _, _, _)
ConvertLoop(columns, n, formats, h, r, off) ==
    IF n > Len(columns) THEN [heap |-> h, ref |-> r, raised |-> "none"]
    ELSE LET column == columns[n]
         IN  IF column \notin DOMAIN h[r]
             THEN [heap |-> h, ref |-> 0, raised |-> "KeyError"]
             ELSE ConvertLoop(columns, n + 1, formats,
                     Put(h, r, [h[r] EXCEPT ![column] =
                         [i \in DOMAIN h[r][column] |->
                             datetime_formatter(h[r][column][i], formats[column], off)]]),
                     r, off)

convert_datetime_columns(datetime_column_list, datetime_formats, h, processed_data, off) ==
    LET result_data == CopyTable(h, processed_data)
    IN  ConvertLoop(datetime_column_list, 1, datetime_formats,
                    result_data.heap, result_data.ref, off)

\* for each_col in self.dead_columns: raw_data = self.remove_columns(raw_data, [each_col])
RECURSIVE RemoveDeadLoop(_, _, _, _)
RemoveDeadLoop(dead, n, h, r) ==
    IF n > Len(dead) THEN [heap |-> h, ref |-> r]
    ELSE LET x == remove_columns(h, r, {dead[n]})
         IN  RemoveDeadLoop(dead, n + 1, x.heap, x.ref)

\* DatetimeFormatter.convert on the table at raw_data, for a formatter in state self
convert(self, h, raw_data, off) ==
    IF Len(self.datetime_columns) = 0
    THEN [heap |-> h, ref |-> raw_data, raised |-> "none"]
    ELSE LET x == RemoveDeadLoop(self.dead_columns, 1, h, raw_data)
         IN  convert_datetime_columns(self.datetime_columns, self.datetime_formats,
                                      x.heap, x.ref, off)

\* for column in timestamp_column_list: if column in result_data.columns: ...
RECURSIVE ReverseLoop(_, _, _, _, _, _)
ReverseLoop(columns, n, formats, h, r, off) ==
    IF n > Len(columns) THEN [heap |-> h, ref |-> r, raised |-> "none"]
    ELSE LET column == columns[n]
         IN  IF column \in DOMAIN h[r]
             THEN ReverseLoop(columns, n + 1, formats,
                     Put(h, r, [h[r] EXCEPT ![column] =
                         [i \in DOMAIN h[r][column] |->
                             column_timestamp_formatter(h[r][column][i], formats[column], off)]]),
                     r, off)
             ELSE ReverseLoop(columns, n + 1, formats, h, r, off)   \* logger.error

convert_timestamp_to_datetime(timestamp_column_list, format_dict, h, processed_data, off) ==
    LET result_data == CopyTable(h, processed_data)
    IN  ReverseLoop(timestamp_column_list, 1, format_dict,
                    result_data.heap, result_data.ref, off)

\* DatetimeFormatter.reverse_convert on the table at processed_data
reverse_convert(self, h, processed_data, off) ==
    IF Len(self.datetime_columns) = 0
    THEN [heap |-> h, ref |-> processed_data, raised |-> "none"]
    ELSE convert_timestamp_to_datetime(self.datetime_columns, self.datetime_formats,
                                       h, processed_data, off)

(***************************************************************************)
(* The metadata the formatter is fitted on, and fit.                       *)
(***************************************************************************)
\* Metadata.change_column_type(columns, "discrete", "datetime")
change_column_type(md, columns) ==
    [md EXCEPT !.discrete_columns = @ \ columns,
               !.datetime_columns = @ \cup columns]

\* Metadata.remove_column(columns)
remove_column(md, columns) ==
    [md EXCEPT !.column_list = @ \ columns,
               !.discrete_columns = @ \ columns,
               !.datetime_columns = @ \ columns]

\* if each_col in self.datetime_formats.keys()
HasFormat(each_col, datetime_formats) == each_col \in DOMAIN datetime_formats

\* the test the other way round: no usable column is discrete
ShouldChangeTypeDisjoint(datetime_columns, discrete_columns) ==
    (datetime_columns \cap discrete_columns) = {}

\* if not (set(datetime_columns) - set(metadata.discrete_columns))
ShouldChangeType(datetime_columns, discrete_columns) ==
    (datetime_columns \ discrete_columns) = {}

\* DatetimeFormatter.fit: the formatter's new fields, the metadata it leaves, and the
\* change_column_type request it made (asked, with its columns)
fit(md) ==
    LET datetime_formats == md.datetime_format
        datetime_columns == SelectSeq(ListOf(md.datetime_columns),
                                      LAMBDA c : HasFormat(c, datetime_formats))
        dead_columns     == SelectSeq(ListOf(md.datetime_columns),
                                      LAMBDA c : ~HasFormat(c, datetime_formats))
        asked            == ShouldChangeType(Range(datetime_columns), md.discrete_columns)
        md1              == IF asked THEN change_column_type(md, Range(datetime_columns))
                            ELSE md
    IN  [self |-> [fitted |-> TRUE,
                   datetime_columns |-> datetime_columns,
                   datetime_formats |-> datetime_formats,
                   dead_columns |-> dead_columns],
         metadata |-> remove_column(md1, Range(dead_columns)),
         request  |-> [asked |-> asked,
                       columns |-> IF asked THEN Range(datetime_columns) ELSE {},
                       discrete |-> md.discrete_columns]]

(***************************************************************************)
(* The inputs of the model.                                                *)
(***************************************************************************)
FmtEmpty == <<>>

FmtDate == <<"%", "Y", "-", "%", "m", "-", "%", "d">>

FmtDateTime == FmtDate \o <<" ", "%", "H", ":", "%", "M", ":", "%", "S">>

Date2023 == <<"2", "0", "2", "3", "-", "0", "1", "-", "0", "1">>

Date1992 == <<"1", "9", "9", "2", "-", "0", "5", "-", "1", "5">>

Date1960 == <<"1", "9", "6", "0", "-", "0", "1", "-", "0", "1">>

Date1970 == <<"1", "9", "7", "0", "-", "0", "1", "-", "0", "1">>

DateUnpadded == <<"2", "0", "2", "3", "-", "1", "-", "1">>

DateMonth13 == <<"2", "0", "2", "3", "-", "1", "3", "-", "0", "1">>

DateFeb30 == <<"2", "0", "2", "3", "-", "0", "2", "-", "3", "0">>

Invalid == <<"i", "n", "v", "a", "l", "i", "d">>

Time1145 == <<" ", "1", "1", ":", "4", "5", ":", "0", "0">>

DateLast == <<"9", "9", "9", "9", "-", "1", "2", "-", "3", "1">>

TimeLast == <<" ", "2", "3", ":", "5", "9", ":", "5", "9">>

\* 2023-01-01T00:00:00 UTC
Ts2023 == Ts(DaysFromCivil(2023, 1, 1), 0)

\* the cells of the multi-row columns
CoreCells == {Text(Date2023), Text(Invalid), NA, Text(Date1960)}

\* the column of the tested scenario: one bad value between two good ones
ExampleColumn == <<Text(Date2023), Text(Invalid), Text(Date1992)>>

\* the cells of the one-row columns
WideCells ==
    CoreCells \cup
    { Text(Date1992), Text(Date1970), Text(DateUnpadded), Text(DateMonth13), Text(DateFeb30),
      Text(Date2023 \o Time1145), Text(DateLast \o TimeLast), Text(<<>>),
      Native(Dt(2023, 1, 1, 0, 0, 0)), Native(Dt(1960, 1, 1, 0, 0, 0)),
      Num(Ts2023), Num(TsZero), Num(TsAddSecs(TsZero, 0 - 1)),
      Num(MaxTimestamp), Num(TsAddSecs(MaxTimestamp, 1)) }

SeqsOf(S, n) == [1..n -> S]

CellColumns ==
    {<<v>> : v \in WideCells} \cup {ExampleColumn}
        \cup UNION {SeqsOf(CoreCells, n) : n \in 2..MaxRows}

\* the columns of the tables of several columns
SampleColumns == { <<Text(Date2023), NA>>, <<Num(Ts2023), Text(Invalid)>> }

SampleTables == {[c \in S |-> col] : S \in SUBSET Cols, col \in SampleColumns}

PartialMaps(S, V) == UNION {[D -> V] : D \in SUBSET S}

(***************************************************************************)
(* The state.                                                              *)
(***************************************************************************)
VARIABLES
    metadata,   \* the Metadata object: column_list, datetime_columns, discrete_columns, datetime_format
    self,       \* the DatetimeFormatter: fitted, datetime_columns, datetime_formats, dead_columns
    tz,         \* the local UTC offset of the process
    heap,       \* the live tables, by reference
    raw_ref,    \* the caller's table
    conv_ref,   \* what convert returned for it (0: nothing)
    rev_ref,    \* what reverse_convert returned (0: nothing)
    op,         \* the last operation called
    arg_ref,    \* the table the last convert or reverse_convert was given
    before,     \* that table as it was when the call began
    raised,     \* the exception the last call raised to the caller ("none": it returned)
    fits,       \* fit calls so far
    fit_md,     \* the metadata as the last fit found it
    request,    \* the change_column_type request of the last fit
    moved       \* the columns change_column_type was asked to move, over all fits

vars == <<metadata, self, tz, heap, raw_ref, conv_ref, rev_ref, op, arg_ref, before,
          raised, fits, fit_md, request, moved>>

NoRequest == [asked |-> FALSE, columns |-> {}, discrete |-> {}]

\* DatetimeFormatter.__init__
NewFormatter == [fitted |-> FALSE, datetime_columns |-> <<>>,
                 datetime_formats |-> <<>>, dead_columns |-> <<>>]

InitRest ==
    /\ self = NewFormatter
    /\ heap = <<>>
    /\ raw_ref = 0 /\ conv_ref = 0 /\ rev_ref = 0
    /\ op = "init" /\ arg_ref = 0 /\ before = <<>>
    /\ raised = "none"
    /\ fits = 0
    /\ fit_md = metadata
    /\ request = NoRequest
    /\ moved = {}

\* any classification of the columns, any format mapping
Init ==
    /\ metadata \in [column_list : {Cols},
                     datetime_columns : SUBSET Cols,
                     discrete_columns : SUBSET Cols,
                     datetime_format : PartialMaps(Cols, {FmtEmpty, FmtDate})]
    /\ tz \in TzOffsets
    /\ InitRest

\* one datetime column with a format
InitCells ==
    /\ metadata \in [column_list : {{"date1"}},
                     datetime_columns : {{"date1"}},
                     discrete_columns : {{}},
                     datetime_format : [{"date1"} -> {FmtDate, FmtDateTime}]]
    /\ tz \in TzOffsets
    /\ InitRest

(***************************************************************************)
(* The operations.                                                         *)
(***************************************************************************)
\* formatter.fit(metadata): before any table is processed, and again on the same metadata
Fit ==
    /\ fits < MaxFits /\ raw_ref = 0
    /\ LET r == fit(metadata)
       IN  /\ self' = r.self
           /\ metadata' = r.metadata
           /\ request' = r.request
           /\ moved' = moved \cup r.request.columns
    /\ fit_md' = metadata
    /\ fits' = fits + 1
    /\ op' = "fit"
    /\ UNCHANGED <<tz, heap, raw_ref, conv_ref, rev_ref, arg_ref, before, raised>>

\* the caller takes a table (a behaviour follows one table; every table is tried)
LoadOf(t) ==
    /\ self.fitted /\ raw_ref = 0
    /\ heap' = Put(<<>>, 1, t)
    /\ raw_ref' = 1 /\ conv_ref' = 0 /\ rev_ref' = 0
    /\ op' = "load" /\ arg_ref' = 0 /\ before' = <<>>
    /\ raised' = "none"
    /\ UNCHANGED <<metadata, self, tz, fits, fit_md, request, moved>>

LoadTable == \E t \in SampleTables : LoadOf(t)

LoadColumn == \E col \in CellColumns : LoadOf([c \in {"date1"} |-> col])

\* converted = formatter.convert(table)
Convert ==
    /\ self.fitted /\ raw_ref # 0
    /\ LET h == Restrict(heap, {raw_ref})
           r == convert(self, h, raw_ref, tz)
       IN  /\ heap' = Restrict(r.heap, {raw_ref, r.ref})
           /\ conv_ref' = r.ref
           /\ raised' = r.raised
    /\ rev_ref' = 0
    /\ op' = "convert" /\ arg_ref' = raw_ref /\ before' = heap[raw_ref]
    /\ UNCHANGED <<metadata, self, tz, raw_ref, fits, fit_md, request, moved>>

\* result = formatter.reverse_convert(table), of the caller's table or of what convert returned
ReverseConvert ==
    /\ self.fitted
    /\ \E a \in {raw_ref, conv_ref} \ {0} :
         LET h == Restrict(heap, {raw_ref, conv_ref})
             r == reverse_convert(self, h, a, tz)
         IN  /\ heap' = Restrict(r.heap, {raw_ref, conv_ref, r.ref})
             /\ rev_ref' = r.ref
             /\ raised' = r.raised
             /\ arg_ref' = a /\ before' = heap[a]
    /\ op' = "reverse_convert"
    /\ UNCHANGED <<metadata, self, tz, raw_ref, conv_ref, fits, fit_md, request, moved>>

Next == Fit \/ LoadTable \/ Convert \/ ReverseConvert

NextCells == Fit \/ LoadColumn \/ Convert \/ ReverseConvert

Spec == Init /\ [][Next]_vars

SpecCells == InitCells /\ [][NextCells]_vars

(***************************************************************************)
(* What the properties speak of.                                           *)
(***************************************************************************)
usable_columns == Range(self.datetime_columns)

dead_columns == Range(self.dead_columns)

\* the last call was a convert or a reverse_convert, and it returned
Returned == op \in {"convert", "reverse_convert"} /\ raised = "none"

\* the table the last call returned
Result == IF op = "convert" THEN heap[conv_ref] ELSE heap[rev_ref]

\* the last call was reverse_convert(convert(table)), both returned
RoundTrip == /\ op = "reverse_convert" /\ raised = "none"
             /\ conv_ref # 0 /\ arg_ref = conv_ref

\* the value has a datetime under the format: it is one, or its text parses
Parses(v, f) == \/ v.k = "datetime"
                \/ v.k \in {"text", "num"} /\ Strptime(StrOf(v), f).ok

\* the datetime of a value that has one
DatetimeOf(v, f) == IF v.k = "datetime" THEN v.dt ELSE Strptime(StrOf(v), f).dt

\* 0 <= t <= 253402300799
Between0AndMax(t) == t.day >= 0 /\ t.day <= 2932896

(***************************************************************************)
(* C1.  After fit, no call to convert or reverse_convert raises an error   *)
(* to the caller, whatever the table (also one that lacks a usable         *)
(* column) and whatever its cells.                                         *)
(***************************************************************************)
C1_NeverRaises == op \in {"convert", "reverse_convert"} => raised = "none"

(***************************************************************************)
(* C2.  A column classified as datetime with no entry in the format        *)
(* mapping at fit time is in dead_columns after fit, and is absent from    *)
(* the table convert returns and from the table reverse_convert returns,   *)
(* for every input table (also when usable_columns is empty).              *)
(***************************************************************************)
C2_DeadColumnsAbsent ==
    /\ self.fitted =>
         \A c \in fit_md.datetime_columns :
            c \notin DOMAIN fit_md.datetime_format => c \in dead_columns
    /\ Returned => \A c \in dead_columns : c \notin DOMAIN Result

(***************************************************************************)
(* C3.  convert keeps a numeric timestamp as it is: in a usable column, a  *)
(* cell that is already a number comes back from convert with the same     *)
(* value.                                                                  *)
(***************************************************************************)
C3_ConvertKeepsTimestamps ==
    (op = "convert" /\ raised = "none") =>
        \A c \in usable_columns \cap DOMAIN before :
           \A i \in DOMAIN before[c] :
              before[c][i].k = "num" => heap[conv_ref][c][i] = before[c][i]

(***************************************************************************)
(* C4.  After fit, usable_columns is exactly the datetime-classified       *)
(* columns with a non-empty format string, dead_columns exactly the other  *)
(* datetime-classified columns (no entry, or an empty one), and no column  *)
(* outside the classification is in either.                                *)
(***************************************************************************)
C4_FitPartition ==
    self.fitted =>
        LET withFormat == {c \in fit_md.datetime_columns :
                              /\ c \in DOMAIN fit_md.datetime_format
                              /\ fit_md.datetime_format[c] # <<>>}
        IN  /\ usable_columns = withFormat
            /\ dead_columns = fit_md.datetime_columns \ withFormat

(***************************************************************************)
(* C5.  reverse_convert on a numeric cell t of a usable column: t = 0 and  *)
(* t = 253402300799 give a string in the column's format, not the          *)
(* sentinel; every t outside [0, 253402300799] (so -1 and 253402300800)    *)
(* and every missing cell give "No Datetime"; the cell is never a number.  *)
(***************************************************************************)
C5_RangeBoundaries ==
    (op = "reverse_convert" /\ raised = "none") =>
        \A c \in usable_columns \cap DOMAIN before :
           \A i \in DOMAIN before[c] :
              LET v   == before[c][i]
                  out == heap[rev_ref][c][i]
              IN  /\ out.k = "text"
                  /\ v.k = "na" => out = NoDatetime
                  /\ (v.k = "num" /\ ~Between0AndMax(v.t)) => out = NoDatetime
                  /\ (v.k = "num" /\ v.t \in {TsZero, MaxTimestamp}) =>
                        /\ out # NoDatetime
                        /\ Strptime(out.s, self.datetime_formats[c]).ok

C8_InputNotMutated ==
    (op \in {"convert", "reverse_convert"}) => heap[arg_ref] = before

\* convert dropped a dead column of the table and converted a usable one, in a new table
C8_Witness ==
    /\ op = "convert" /\ raised = "none"
    /\ dead_columns \cap DOMAIN before # {}
    /\ conv_ref # arg_ref
    /\ \E c \in usable_columns : heap[conv_ref][c] # before[c]

(***************************************************************************)
(* C9.  As claimed: fit asks the metadata to reclassify all usable_columns *)
(* from discrete to datetime if no usable column is in the discrete set.   *)
(***************************************************************************)
C9_AsksWhenNoneDiscrete ==
    self.fitted =>
        ((usable_columns \cap fit_md.discrete_columns = {}) =>
            (request.asked /\ request.columns = usable_columns))

(***************************************************************************)
(* C9, amended.  fit asks the metadata to reclassify all usable_columns    *)
(* from discrete to datetime exactly when every usable column is in the    *)
(* discrete set, and the metadata then holds none of them as discrete.     *)
(***************************************************************************)
C9_AsksWhenAllDiscrete ==
    self.fitted =>
        /\ request.asked <=> (usable_columns \subseteq fit_md.discrete_columns)
        /\ request.asked =>
              /\ request.columns = usable_columns
              /\ op = "fit" => metadata.discrete_columns \cap usable_columns = {}

\* a fit that found its usable columns discrete and asked for them
C9_Witness ==
    /\ op = "fit"
    /\ usable_columns # {}
    /\ usable_columns \subseteq fit_md.discrete_columns
    /\ request.asked /\ request.columns = usable_columns

(***************************************************************************)
(* C10.  No double reclassification: over any sequence of fit calls on the *)
(* same metadata, fit never asks to reclassify from discrete to datetime a *)
(* column that is not discrete when it asks.                               *)
(***************************************************************************)
C10_NoDoubleReclassification ==
    request.asked => request.columns \subseteq request.discrete

\* a second fit that found columns the first fit had moved, and did not ask again
C10_Witness ==
    /\ op = "fit" /\ fits = 2
    /\ usable_columns \cap moved # {}
    /\ ~request.asked

=============================================================================
